---- MODULE Spec2Model ----
(***************************************************************************)
(* Planet Postcard Forge (src/src/app/page.tsx): the place-resolution      *)
(* pipeline (onGenerate), the snapshot effect (rebuildSnapshot) and the    *)
(* image load/error callbacks, as a state machine.                         *)
(*                                                                         *)
(* Conventions.  A JavaScript string is a sequence of one-character        *)
(* strings; a character outside ASCII is written as its code point         *)
(* ("U+795E").  An optional value (T | undefined, T | null) is a set with  *)
(* at most one element: {} is undefined/null, {v} is the value v.          *)
(* Latitudes and longitudes are integers in thousandths of a degree.       *)
(***************************************************************************)
EXTENDS Integers, Sequences, FiniteSets, TLC

\* ---------------------------------------------------------------- bounds

\* Resolutions (onGenerate invocations) started in one behaviour.
MaxRes == 2

\* Image loads pending at the same time.
MaxImgs == 2

\* ------------------------------------------------------ optional values

None == {}

Some(v) == {v}

The(o) == CHOOSE v \in o : TRUE

\* ---------------------------------------------------------------- strings

\* String.prototype.toLowerCase on one character, for the characters the
\* modelled strings use.
LowerChar(c) ==
  CASE c = "K" -> "k"
    [] c = "P" -> "p"
    [] c = "T" -> "t"
    [] c = "O" -> "o"
    [] OTHER -> c

toLowerCase(s) == [i \in 1..Len(s) |-> LowerChar(s[i])]

\* String.prototype.includes
includes(s, t) ==
  \E i \in 0..(Len(s) - Len(t)) : SubSeq(s, i + 1, i + Len(t)) = t

\* ----------------------------------------------------- the dictionary

\* The two-character key U+795E U+6238 of placeNameDict (line 171), whose
\* value is "Kobe".
KobeJa == <<"U+795E", "U+6238">>

Kobe == <<"K", "o", "b", "e">>

\* "Paris", one of the quick-selection texts; not a key of placeNameDict.
Paris == <<"P", "a", "r", "i", "s">>

\* "valueOf": not a key of placeNameDict, but the name of a property every
\* object literal inherits from Object.prototype.
ValueOfKey == <<"v", "a", "l", "u", "e", "O", "f">>

\* The value of Object.prototype.valueOf: a function, not a string.  It is
\* the one modelled value that is not a string; no string has this form.
NativeFn == <<"function valueOf() { [native code] }">>

IsString(v) == v # NativeFn

\* The entries of placeNameDict the model keeps (one of the 31).
placeNameDict == [k \in {KobeJa} |-> Kobe]

\* placeNameDict[place]: an own entry, else a property inherited through the
\* prototype chain, else undefined.
DictLookup(place) ==
  IF place \in DOMAIN placeNameDict THEN Some(placeNameDict[place])
  ELSE IF place = ValueOfKey THEN Some(NativeFn)
  ELSE None

\* JavaScript truthiness of an optional string-or-object value.
Truthy(o) == o # None /\ o # Some(<<>>)

\* Faulty variant of getSearchTerm: the translation is used whatever the language.
getSearchTermAnyLang(place, lang) ==
  IF Truthy(DictLookup(place)) THEN The(DictLookup(place)) ELSE place

getSearchTerm(place, lang) ==
  IF lang = "ja" /\ Truthy(DictLookup(place))
  THEN The(DictLookup(place))
  ELSE place

\* ---------------------------------------------------------- the inputs

\* The query texts a user types or picks.
Places == {KobeJa, Paris, ValueOfKey}

Langs == {"ja", "en"}

AltLang(lang) == IF lang = "ja" THEN "en" ELSE "ja"

\* ---------------------------------------------------------- the remote

\* The ranked title lists a search may answer with (json.query.search).
ResultLists == {<<>>, <<Paris, Kobe>>}

\* What one search request may end in: the fetch answers with a result list,
\* or the response is not ok and line 71 throws.
HttpError == "HTTP error! status: 500"

TypeErrorMsg == "q.toLowerCase is not a function"

FetchError == "Failed to fetch"

SearchResponses ==
  {[ok |-> TRUE, results |-> rl] : rl \in ResultLists}
    \cup {[ok |-> FALSE, results |-> <<>>]}

\* A function result: a returned value, or a thrown error.
Return(v) == [threw |-> FALSE, value |-> v, error |-> ""]

Throw(e) == [threw |-> TRUE, value |-> None, error |-> e]

\* results.find(r => lower(r.title) === lower(q) || lower(r.title).includes(lower(q)))
FindMatch(q, results) ==
  LET hits == {i \in 1..Len(results) :
                 \/ toLowerCase(results[i]) = toLowerCase(q)
                 \/ includes(toLowerCase(results[i]), toLowerCase(q))}
  IN IF hits = {} THEN None
     ELSE Some(results[CHOOSE i \in hits : \A j \in hits : i <= j])

\* wikiSearchTitle(q, lang), given the response of its fetch.
wikiSearchTitle(q, resp) ==
  IF ~resp.ok THEN Throw(HttpError)
  ELSE IF resp.results = <<>> THEN Return(None)
  ELSE IF ~IsString(q) THEN Throw(TypeErrorMsg)
  ELSE LET exactMatch == FindMatch(q, resp.results)
       IN Return(IF Truthy(exactMatch) THEN exactMatch
                 ELSE Some(resp.results[1]))

\* The points and cross-reference identifiers a page may carry.
KobePoint == [lat |-> 34690, lon |-> 135196]

ParisPoint == [lat |-> 48857, lon |-> 2352]

Points == {KobePoint, ParisPoint}

Qids == {<<"Q", "4", "8", "3", "2", "0">>}

\* What one coordinate request may end in: the fetch fails (nothing checks
\* res.ok, so only a rejected fetch or an unparsable body throws), or the page
\* is returned with or without coordinates and with or without a qid.
CoordResponses ==
  {[ok |-> TRUE, coords |-> c, qid |-> q] :
      c \in {None} \cup {Some(p) : p \in Points},
      q \in {None} \cup {Some(i) : i \in Qids}}
    \cup {[ok |-> FALSE, coords |-> None, qid |-> None]}

\* wikiTitleToCoordAndQid(title, lang), given the response of its fetch.
wikiTitleToCoordAndQid(resp) ==
  IF ~resp.ok THEN Throw(FetchError)
  ELSE IF resp.coords = None THEN Return(None)
  ELSE Return(Some([lat |-> The(resp.coords).lat,
                    lon |-> The(resp.coords).lon,
                    qid |-> resp.qid]))

\* The facts state: every field optional.
EmptyFacts == [label |-> None, country |-> None, population |-> None, elev |-> None]

Japan == <<"J", "a", "p", "a", "n">>

\* A binding row the fact query may return (results.bindings[0]): each field
\* is the string the row carries, or is missing.
KobeRow ==
  [itemLabel |-> Some(Kobe), countryLabel |-> Some(Japan),
   population |-> Some(<<"1", "5", "2", "2", "9", "4", "4">>), elev |-> None]

FactResponses ==
  {[ok |-> TRUE, row |-> r] : r \in {None, Some(KobeRow)}}
    \cup {[ok |-> FALSE, row |-> None]}

DigitValue(c) ==
  CASE c = "0" -> 0 [] c = "1" -> 1 [] c = "2" -> 2 [] c = "3" -> 3
    [] c = "4" -> 4 [] c = "5" -> 5 [] c = "6" -> 6 [] c = "7" -> 7
    [] c = "8" -> 8 [] c = "9" -> 9

RECURSIVE Number(_)
\* Number(x) of a decimal numeral; Number("") is 0.
Number(s) ==
  IF s = <<>> THEN 0
  ELSE 10 * Number(SubSeq(s, 1, Len(s) - 1)) + DigitValue(s[Len(s)])

\* num = (x) => (x ? Number(x) : undefined): a missing or empty string
\* gives undefined.
num(x) == IF Truthy(x) THEN Some(Number(The(x))) ELSE None

\* wikidataFacts(qid, lang), given the response of its fetch.
wikidataFacts(resp) ==
  IF ~resp.ok THEN Throw(FetchError)
  ELSE IF resp.row = None THEN Return(Some([label |-> None, country |-> None,
                                           population |-> None, elev |-> None]))
  ELSE LET b == The(resp.row)
       IN Return(Some([label |-> b.itemLabel, country |-> b.countryLabel,
                       population |-> num(b.population), elev |-> num(b.elev)]))

\* ------------------------------------------------------- status texts

\* The strings handed to setStatus, by the line that sets them; a status is
\* the sequence of the pieces of its template literal.
StEmpty == <<>>

StSearching == <<"searching (308)">>

StNotFound == <<"no page found on Wikipedia (341)">>

StCoords == <<"fetching coordinates (345)">>

StDetails == <<"fetching details (358, 368)">>

StNoCoords == <<"could not get coordinates (362, 372)">>

StFailed(msg) == <<"search failed (378): ", msg>>

StImageFailed == <<"could not fetch the image (285)">>

\* ------------------------------------------------------------ geometry

\* Math.cos of a latitude, in thousandths, for the latitudes the model uses:
\* those of Points and those of GeoLats (cos is even and positive on (-90, 90)).
CosMilli(lat) ==
  CASE lat = 34690 -> 822
    [] lat = 48857 -> 658
    [] lat = 0 -> 1000
    [] lat = -33868 -> 830
    [] lat = 88999 -> 17
    [] lat = -88999 -> 17

\* degPerKmAtLat and the half extents of bbox, in thousandths of a degree:
\* halfLat = scaleKm / 110.574 / 2, halfLon = scaleKm / (111.320 cos lat) / 2.
HalfLat(scaleKm) == (scaleKm * 1000000) \div (110574 * 2)

HalfLon(lat, scaleKm) ==
  (scaleKm * 1000000) \div ((111320 * CosMilli(lat) * 2) \div 1000)

\* Faulty variant of bbox: the box starts at the point instead of being centred.
bboxFromCorner(center, scaleKm) ==
  IF center = None THEN None
  ELSE LET c == The(center)
       IN Some([south |-> c.lat,
                north |-> c.lat + 2 * HalfLat(scaleKm),
                west |-> c.lon,
                east |-> c.lon + 2 * HalfLon(c.lat, scaleKm)])

\* The bbox memo: null without a center.
bbox(center, scaleKm) ==
  IF center = None THEN None
  ELSE LET c == The(center)
       IN Some([south |-> c.lat - HalfLat(scaleKm),
                north |-> c.lat + HalfLat(scaleKm),
                west |-> c.lon - HalfLon(c.lat, scaleKm),
                east |-> c.lon + HalfLon(c.lat, scaleKm)])

\* buildWvsUrl: the request, by the parameters that vary.
buildWvsUrl(box, date) ==
  [REQUEST |-> "GetSnapshot", TIME |-> date,
   BBOX |-> <<box.south, box.west, box.north, box.east>>,
   WIDTH |-> 1600, HEIGHT |-> 900]

\* ------------------------------------------------------------ rendering

\* Number.prototype.toFixed(3) of a value held in thousandths: the sign, the
\* integer part and the three decimals.
toFixed3(m) ==
  LET a == IF m < 0 THEN -m ELSE m
  IN <<IF m < 0 THEN "-" ELSE "", a \div 1000, (a % 1000) \div 100,
       (a % 100) \div 10, a % 10>>

\* JavaScript truthiness of an optional number: undefined and 0 are falsy.
TruthyNum(o) == o # None /\ o # Some(0)

CreditLine ==
  "Imagery: NASA EOSDIS Worldview Snapshots (GIBS)  |  Data: Wikipedia/Wikidata"

\* The drawing calls of img.onload in the order the code makes them: drawImage
\* (228), the gradient fillRect (234), the title (248), the subtitle (253), one
\* rounded box with its text per chip (262-273), the credit (279-283).
DrawOrder(nChips) ==
  <<"image", "gradient", "title", "subtitle">>
    \o [k \in 1..nChips |-> "chip"]
    \o <<"credit">>

\* canvas.height (227): the height of the surface, in pixels.
canvasHeight == 900

\* The vertical coordinates img.onload passes to its drawing calls, in the
\* order of the calls: the bottom of the title (248) and of the subtitle (253;
\* textBaseline is "bottom", 238), for each chip the top of its rounded box
\* (880), the bottom of the box (the top plus h = 36, 265-266) and the bottom
\* of its text (906, 271), and the bottom of the credit (canvas.height - 16,
\* 282).
DrawnAt(nChips) ==
  <<[what |-> "title", y |-> 820], [what |-> "subtitle", y |-> 860]>>
    \o [k \in 1..(3 * nChips) |->
         CASE k % 3 = 1 -> [what |-> "chipTop", y |-> 880]
           [] k % 3 = 2 -> [what |-> "chipBottom", y |-> 880 + 36]
           [] OTHER -> [what |-> "chipText", y |-> 906]]
    \o <<[what |-> "credit", y |-> canvasHeight - 16]>>

\* Faulty variant of Render: the credit is drawn before the chips, and only when
\* the facts have a label.
RenderCreditEarly(img) ==
  LET title == IF Truthy(img.facts.label) THEN The(img.facts.label) ELSE img.place
      chips ==
        (IF TruthyNum(img.facts.population)
         THEN <<<<"population", The(img.facts.population)>>>> ELSE <<>>)
        \o (IF img.facts.elev # None
            THEN <<<<"elevation", The(img.facts.elev)>>>> ELSE <<>>)
        \o <<<<"date", img.date>>>>
  IN [image |-> img.src, title |-> title, subtitle |-> <<>>, chips |-> chips,
      credit |-> IF Truthy(img.facts.label) THEN CreditLine ELSE "",
      layers |-> <<"image", "gradient", "title", "subtitle">>
                   \o (IF Truthy(img.facts.label) THEN <<"credit">> ELSE <<>>)
                   \o [k \in 1..Len(chips) |-> "chip"],
      marks |-> DrawnAt(Len(chips))]

\* img.onload: what the callback of an image draws on the canvas, from the
\* values its closure captured (facts, place, center, date).
Render(img) ==
  LET title == IF Truthy(img.facts.label) THEN The(img.facts.label) ELSE img.place
      subtitleParts ==
        (IF Truthy(img.facts.country) THEN <<The(img.facts.country)>> ELSE <<>>)
        \o (IF img.center # None
            THEN <<<<toFixed3(The(img.center).lat), toFixed3(The(img.center).lon)>>>>
            ELSE <<>>)
      chips ==
        (IF TruthyNum(img.facts.population)
         THEN <<<<"population", The(img.facts.population)>>>> ELSE <<>>)
        \o (IF img.facts.elev # None
            THEN <<<<"elevation", The(img.facts.elev)>>>> ELSE <<>>)
        \o <<<<"date", img.date>>>>
  IN [image |-> img.src, title |-> title, subtitle |-> subtitleParts,
      chips |-> chips, credit |-> CreditLine, layers |-> DrawOrder(Len(chips)),
      marks |-> DrawnAt(Len(chips))]

\* ---------------------------------------------------------------- state

Dates == {"2024-05-01", "2024-05-02"}

Scales == {120, 130}

VARIABLES
  place,        \* useState: the query text
  lang,         \* useState: the language selection
  date,         \* useState: the imagery date
  scaleKm,      \* useState: the width of the bbox in km
  center,       \* useState: the current point, or null
  facts,        \* useState: the current facts
  snapshotUrl,  \* useState: the last request built, or null
  status,       \* useState: the status text
  canvas,       \* what the canvas shows: nothing, or the last render
  imgs,         \* the Image objects whose load is pending, oldest first
  res,          \* the onGenerate invocations: each one's position and locals
  centerBy,     \* history: the invocation whose setCenter set center (0: none)
  factsBy       \* history: the invocation whose setFacts set facts (0: none)

vars ==
  <<place, lang, date, scaleKm, center, facts, snapshotUrl, status, canvas,
    imgs, res, centerBy, factsBy>>

Res == 1..MaxRes

\* An invocation that has not started.  A local is kept while the invocation
\* can still read it.  calls, coordCalls and factCalls are history: the (term,
\* language) of every search issued, the language of every coordinate lookup
\* issued and the number of fact queries issued, each kept until the stage
\* it belongs to is over.
IdleRes ==
  [pc |-> "idle", stage |-> 0, place |-> <<>>, lang |-> "", searchTerm |-> <<>>,
   title |-> None, coordQ |-> None, calls |-> <<>>, coordCalls |-> <<>>,
   factCalls |-> 0]

\* An invocation that has returned: its locals are gone.
DoneRes == [IdleRes EXCEPT !.pc = "done"]

\* The page once the user has typed a text and picked a language: without a
\* center no effect has run and nothing else has changed since the mount.
Init ==
  /\ place \in Places
  /\ lang \in Langs
  /\ date = "2024-05-01"
  /\ scaleKm = 120
  /\ center = None
  /\ facts = EmptyFacts
  /\ snapshotUrl = None
  /\ status = StEmpty
  /\ canvas = None
  /\ imgs = <<>>
  /\ res = [r \in Res |-> IdleRes]
  /\ centerBy = 0
  /\ factsBy = 0

\* -------------------------------------------------- the snapshot effect

\* rebuildSnapshot (214-287) as created by a render with these state values:
\* the Image it starts loading, with what its onload closure captured.
NewImage(c, f, p, d, s) ==
  [src |-> buildWvsUrl(The(bbox(c, s)), d), facts |-> f, place |-> p,
   center |-> c, date |-> d]

\* A call of rebuildSnapshot: nothing without a bbox; else it sets snapshotUrl
\* and starts an image load.
rebuildSnapshot(c, f, p, d, s) ==
  IF bbox(c, s) = None
  THEN UNCHANGED <<imgs, snapshotUrl>>
  ELSE /\ Len(imgs) < MaxImgs
       /\ imgs' = Append(imgs, NewImage(c, f, p, d, s))
       /\ snapshotUrl' = Some(NewImage(c, f, p, d, s).src)

\* useEffect (382-386), run by the render that follows a change of center or
\* of a dependency of rebuildSnapshot: with a center it calls rebuildSnapshot.
SnapshotEffect(c, f, p, d, s) ==
  IF c # None
  THEN rebuildSnapshot(c, f, p, d, s)
  ELSE UNCHANGED <<imgs, snapshotUrl>>

\* ------------------------------------------------------ the input surface

\* onChange of the text field and the quick-selection buttons: setPlace.  place
\* is a dependency of rebuildSnapshot, so the effect runs again.
SetPlace(p) ==
  /\ p # place
  /\ place' = p
  /\ SnapshotEffect(center, facts, p, date, scaleKm)
  /\ UNCHANGED <<lang, date, scaleKm, center, facts, status, canvas, res,
                 centerBy, factsBy>>

\* onChange of the language selector: setLang.  Only onGenerate depends on it.
SetLang(l) ==
  /\ l # lang
  /\ lang' = l
  /\ UNCHANGED <<place, date, scaleKm, center, facts, snapshotUrl, status,
                 canvas, imgs, res, centerBy, factsBy>>

\* onChange of the date picker: setDate.
SetDate(d) ==
  /\ d # date
  /\ date' = d
  /\ SnapshotEffect(center, facts, place, d, scaleKm)
  /\ UNCHANGED <<place, lang, scaleKm, center, facts, status, canvas, res,
                 centerBy, factsBy>>

\* onChange of the range slider: setScaleKm; the bbox memo is recomputed.
SetScaleKm(s) ==
  /\ s # scaleKm
  /\ scaleKm' = s
  /\ SnapshotEffect(center, facts, place, date, s)
  /\ UNCHANGED <<place, lang, date, center, facts, status, canvas, res,
                 centerBy, factsBy>>

\* The redraw button (disabled without a center): onClick = rebuildSnapshot.
RedrawClick ==
  /\ center # None
  /\ rebuildSnapshot(center, facts, place, date, scaleKm)
  /\ UNCHANGED <<place, lang, date, scaleKm, center, facts, status, canvas,
                 res, centerBy, factsBy>>

\* ------------------------------------------------------- image callbacks

RemoveAt(q, i) == SubSeq(q, 1, i - 1) \o SubSeq(q, i + 1, Len(q))

\* img.onload (221-284): the canvas is redrawn from the closure of the image.
ImgLoad(i) ==
  /\ i \in 1..Len(imgs)
  /\ canvas' = Some(Render(imgs[i]))
  /\ imgs' = RemoveAt(imgs, i)
  /\ UNCHANGED <<place, lang, date, scaleKm, center, facts, snapshotUrl,
                 status, res, centerBy, factsBy>>

\* Faulty variant of ImgError: the failed load clears the canvas.
ImgErrorClears(i) ==
  /\ i \in 1..Len(imgs)
  /\ status' = StImageFailed
  /\ canvas' = None
  /\ imgs' = RemoveAt(imgs, i)
  /\ UNCHANGED <<place, lang, date, scaleKm, center, facts, snapshotUrl,
                 res, centerBy, factsBy>>

\* img.onerror (285).
ImgError(i) ==
  /\ i \in 1..Len(imgs)
  /\ status' = StImageFailed
  /\ imgs' = RemoveAt(imgs, i)
  /\ UNCHANGED <<place, lang, date, scaleKm, center, facts, snapshotUrl,
                 canvas, res, centerBy, factsBy>>

\* -------------------------------------------------------------- onGenerate

\* The (term, language) of the search call of each stage: lines 315, 321, 328
\* and 336.
StageCall(k, rec) ==
  CASE k = 1 -> <<rec.searchTerm, rec.lang>>
    [] k = 2 -> <<rec.place, rec.lang>>
    [] k = 3 -> <<rec.searchTerm, "en">>
    [] k = 4 -> <<rec.place, AltLang(rec.lang)>>

\* Faulty variant of NextStage: the last fallback (the other language) is missing.
NextStageNoAlt(k, title, rec) ==
  IF k < 2 /\ ~Truthy(title) /\ rec.searchTerm # rec.place THEN 2
  ELSE IF k < 3 /\ ~Truthy(title) /\ rec.lang # "en" THEN 3
  ELSE 0

\* The conditions of lines 319, 326 and 333, read after the search of stage k
\* has returned title: the stage searched next, or 0 when no search follows.
NextStage(k, title, rec) ==
  IF k < 2 /\ ~Truthy(title) /\ rec.searchTerm # rec.place THEN 2
  ELSE IF k < 3 /\ ~Truthy(title) /\ rec.lang # "en" THEN 3
  ELSE IF k < 4 /\ ~Truthy(title) THEN 4
  ELSE 0

\* The next invocation to start.
NextRes(r) == res[r].pc = "idle" /\ \A q \in Res : q < r => res[q].pc # "idle"

\* onGenerate up to its first await (306-315): the callback holds the place
\* and lang of the render that created it.
Generate(r) ==
  /\ NextRes(r)
  /\ status' = StSearching
  /\ LET rec == [IdleRes EXCEPT !.pc = "search", !.stage = 1, !.place = place,
                                !.lang = lang,
                                !.searchTerm = getSearchTerm(place, lang)]
     IN res' = [res EXCEPT ![r] = [rec EXCEPT !.calls = <<StageCall(1, rec)>>]]
  /\ UNCHANGED <<place, lang, date, scaleKm, center, facts, snapshotUrl,
                 canvas, imgs, centerBy, factsBy>>

\* Faulty variant of Catch: the status is set but the invocation does not end.
CatchKeepsGoing(r, msg) ==
  /\ status' = StFailed(msg)
  /\ UNCHANGED <<place, lang, date, scaleKm, center, facts, snapshotUrl,
                 canvas, imgs, res, centerBy, factsBy>>

\* The catch of onGenerate (376-379).
Catch(r, msg) ==
  /\ status' = StFailed(msg)
  /\ res' = [res EXCEPT ![r] = DoneRes]
  /\ UNCHANGED <<place, lang, date, scaleKm, center, facts, snapshotUrl,
                 canvas, imgs, centerBy, factsBy>>

\* Faulty variant of AfterSearch: the check of line 340 is missing.
AfterSearchNoCheck(r, title) ==
  /\ status' = StCoords
  /\ res' = [res EXCEPT ![r] =
               [IdleRes EXCEPT !.pc = "coord", !.lang = res[r].lang,
                               !.title = title, !.coordCalls = <<res[r].lang>>]]
  /\ UNCHANGED <<place, lang, date, scaleKm, center, facts, snapshotUrl,
                 canvas, imgs, centerBy, factsBy>>

\* After the last search (340-346): not found and return, or the first
\* coordinate lookup in the requested language.
AfterSearch(r, title) ==
  /\ IF ~Truthy(title)
     THEN /\ status' = StNotFound
          /\ res' = [res EXCEPT ![r] = DoneRes]
     ELSE /\ status' = StCoords
          /\ res' = [res EXCEPT ![r] =
                       [IdleRes EXCEPT !.pc = "coord", !.lang = res[r].lang,
                                       !.title = title,
                                       !.coordCalls = <<res[r].lang>>]]
  /\ UNCHANGED <<place, lang, date, scaleKm, center, facts, snapshotUrl,
                 canvas, imgs, centerBy, factsBy>>

\* The search call in flight answers with resp, and onGenerate runs on to its
\* next await or to its end.
SearchReturnOn(r, resp) ==
  /\ res[r].pc = "search"
  /\ LET rec == res[r]
         out == wikiSearchTitle(StageCall(rec.stage, rec)[1], resp)
         nxt == NextStage(rec.stage, out.value, rec)
     IN IF out.threw THEN Catch(r, out.error)
        ELSE IF nxt # 0
        THEN /\ res' = [res EXCEPT ![r].stage = nxt,
                                   ![r].title = out.value,
                                   ![r].calls = Append(rec.calls, StageCall(nxt, rec))]
             /\ UNCHANGED <<place, lang, date, scaleKm, center, facts,
                            snapshotUrl, status, canvas, imgs, centerBy, factsBy>>
        ELSE AfterSearch(r, out.value)

SearchReturn(r) == \E resp \in SearchResponses : SearchReturnOn(r, resp)

\* Coordinates were obtained (355-360, 365-370, 375): setCenter, then the
\* fact query when there is a qid, else the end of onGenerate.  The render
\* that follows runs the snapshot effect with the new center.
GotCoords(r, cq) ==
  /\ center' = Some([lat |-> cq.lat, lon |-> cq.lon])
  /\ centerBy' = r
  /\ IF Truthy(cq.qid)
     THEN /\ status' = StDetails
          /\ res' = [res EXCEPT ![r] = [IdleRes EXCEPT !.pc = "facts",
                                                       !.factCalls = 1]]
     ELSE /\ status' = StEmpty
          /\ res' = [res EXCEPT ![r] = DoneRes]
  /\ SnapshotEffect(center', facts, place, date, scaleKm)
  /\ UNCHANGED <<place, lang, date, scaleKm, facts, canvas, factsBy>>

\* Faulty variant of NoCoords: the failure also resets the facts.
NoCoordsResets(r) ==
  /\ status' = StNoCoords
  /\ facts' = EmptyFacts
  /\ res' = [res EXCEPT ![r] = DoneRes]
  /\ SnapshotEffect(center, facts', place, date, scaleKm)
  /\ UNCHANGED <<place, lang, date, scaleKm, center, canvas, centerBy, factsBy>>

\* Faulty variant of NoCoords: the invocation returns without a status.
NoCoordsSilent(r) ==
  /\ res' = [res EXCEPT ![r] = DoneRes]
  /\ UNCHANGED <<place, lang, date, scaleKm, center, facts, snapshotUrl,
                 status, canvas, imgs, centerBy, factsBy>>

\* No coordinates in any lookup (361-363, 371-373).
NoCoords(r) ==
  /\ status' = StNoCoords
  /\ res' = [res EXCEPT ![r] = DoneRes]
  /\ UNCHANGED <<place, lang, date, scaleKm, center, facts, snapshotUrl,
                 canvas, imgs, centerBy, factsBy>>

\* Faulty variant of CoordReturnOn: the retry is made whatever the language.
CoordReturnOnAnyLang(r, resp) ==
  /\ res[r].pc = "coord"
  /\ LET out == wikiTitleToCoordAndQid(resp)
     IN IF out.threw THEN Catch(r, out.error)
        ELSE IF out.value = None
        THEN /\ res' = [res EXCEPT ![r].pc = "coordEn",
                                   ![r].coordCalls = Append(res[r].coordCalls, "en")]
             /\ UNCHANGED <<place, lang, date, scaleKm, center, facts,
                            snapshotUrl, status, canvas, imgs, centerBy, factsBy>>
        ELSE GotCoords(r, The(out.value))

\* The lookup of line 346 answers with resp.
CoordReturnOn(r, resp) ==
  /\ res[r].pc = "coord"
  /\ LET out == wikiTitleToCoordAndQid(resp)
     IN IF out.threw THEN Catch(r, out.error)
        ELSE IF out.value = None /\ res[r].lang # "en"
        THEN /\ res' = [res EXCEPT ![r].pc = "coordEn",
                                   ![r].coordCalls = Append(res[r].coordCalls, "en")]
             /\ UNCHANGED <<place, lang, date, scaleKm, center, facts,
                            snapshotUrl, status, canvas, imgs, centerBy, factsBy>>
        ELSE IF out.value # None THEN GotCoords(r, The(out.value))
        ELSE NoCoords(r)

CoordReturn(r) == \E resp \in CoordResponses : CoordReturnOn(r, resp)

\* The retry of line 352 answers with resp.
CoordEnReturnOn(r, resp) ==
  /\ res[r].pc = "coordEn"
  /\ LET out == wikiTitleToCoordAndQid(resp)
     IN IF out.threw THEN Catch(r, out.error)
        ELSE IF out.value # None THEN GotCoords(r, The(out.value))
        ELSE NoCoords(r)

CoordEnReturn(r) == \E resp \in CoordResponses : CoordEnReturnOn(r, resp)

\* Faulty variant of GotFacts: the result of a superseded invocation is discarded.
GotFactsGuarded(r, f) ==
  IF \E q \in Res : q > r /\ res[q].pc # "idle"
  THEN /\ status' = StEmpty
       /\ res' = [res EXCEPT ![r] = DoneRes]
       /\ UNCHANGED <<place, lang, date, scaleKm, center, facts, snapshotUrl,
                      canvas, imgs, centerBy, factsBy>>
  ELSE /\ facts' = f
       /\ factsBy' = r
       /\ status' = StEmpty
       /\ res' = [res EXCEPT ![r] = DoneRes]
       /\ SnapshotEffect(center, facts', place, date, scaleKm)
       /\ UNCHANGED <<place, lang, date, scaleKm, center, canvas, centerBy>>

\* setFacts and setStatus("") after the fact query (359, 369, 375); the
\* render that follows runs the snapshot effect with the new facts.
GotFacts(r, f) ==
  /\ facts' = f
  /\ factsBy' = r
  /\ status' = StEmpty
  /\ res' = [res EXCEPT ![r] = DoneRes]
  /\ SnapshotEffect(center, facts', place, date, scaleKm)
  /\ UNCHANGED <<place, lang, date, scaleKm, center, canvas, centerBy>>

\* The fact query of line 359 or 369 answers with resp.
FactsReturnOn(r, resp) ==
  /\ res[r].pc = "facts"
  /\ LET out == wikidataFacts(resp)
     IN IF out.threw THEN Catch(r, out.error)
        ELSE GotFacts(r, The(out.value))

FactsReturn(r) == \E resp \in FactResponses : FactsReturnOn(r, resp)

\* ------------------------------------------------------------------ Next

\* The user starts resolutions, one after or during another, and the images
\* they request load or fail; the text, language, date and scale stay as
\* chosen.
Next ==
  \/ \E i \in 1..MaxImgs : ImgLoad(i)
  \/ \E i \in 1..MaxImgs : ImgError(i)
  \/ \E r \in Res : Generate(r)
  \/ \E r \in Res : SearchReturn(r)
  \/ \E r \in Res : CoordReturn(r)
  \/ \E r \in Res : CoordEnReturn(r)
  \/ \E r \in Res : FactsReturn(r)

Spec == Init /\ [][Next]_vars

\* The continuation of invocation r after the call it awaits: at most one of
\* the four is enabled, by the position of r.
Continue(r) ==
  SearchReturn(r) \/ CoordReturn(r) \/ CoordEnReturn(r) \/ FactsReturn(r)

\* Every network call eventually returns or throws: the continuation of an
\* invocation that awaits a call eventually runs.
Responsive == \A r \in Res : WF_vars(Continue(r))

SpecResponsive == Init /\ [][Next]_vars /\ Responsive

\* No invocation of onGenerate is between its start and its end.
NoneInFlight == \A r \in Res : res[r].pc \in {"idle", "done"}

\* The button is clicked only while no invocation is in flight: the queries
\* run one after another, the text and the language edited in between.
GenerateAlone(r) == NoneInFlight /\ Generate(r)

NextSeq ==
  \/ \E i \in 1..MaxImgs : ImgLoad(i)
  \/ \E i \in 1..MaxImgs : ImgError(i)
  \/ \E p \in Places : SetPlace(p)
  \/ \E l \in Langs : SetLang(l)
  \/ \E r \in Res : GenerateAlone(r)
  \/ \E r \in Res : SearchReturn(r)
  \/ \E r \in Res : CoordReturn(r)
  \/ \E r \in Res : CoordEnReturn(r)
  \/ \E r \in Res : FactsReturn(r)

SpecSeq == Init /\ [][NextSeq]_vars

\* -------------------------------------------------------- the compositor

\* The binding rows of the compositor specification: a label or none, a
\* population and an elevation that are missing, "0" or positive.
FactRows ==
  {[itemLabel |-> l, countryLabel |-> Some(Japan), population |-> p, elev |-> e] :
     l \in {None, Some(Kobe)},
     p \in {None, Some(<<"0">>), Some(<<"1", "5", "2", "2", "9", "4", "4">>)},
     e \in {None, Some(<<"0">>), Some(<<"5">>)}}

\* The facts wikidataFacts returns for no row and for each of these rows.
FactSets ==
  {The(wikidataFacts([ok |-> TRUE, row |-> r]).value) :
     r \in {None} \cup {Some(b) : b \in FactRows}}

\* The page after one resolution for "Paris" has completed with some facts and
\* the image it requested last has loaded.
InitRender ==
  /\ place = Paris
  /\ lang = "ja"
  /\ date = "2024-05-01"
  /\ scaleKm = 120
  /\ center = Some(ParisPoint)
  /\ facts \in FactSets
  /\ snapshotUrl = Some(NewImage(center, facts, place, date, scaleKm).src)
  /\ status = StEmpty
  /\ canvas = Some(Render(NewImage(center, facts, place, date, scaleKm)))
  /\ imgs = <<>>
  /\ res = [r \in Res |-> IF r = 1 THEN DoneRes ELSE IdleRes]
  /\ centerBy = 1
  /\ factsBy = 1

\* The user changes the date and the scale and redraws; the images load or
\* fail.
NextRender ==
  \/ \E d \in Dates : SetDate(d)
  \/ \E k \in Scales : SetScaleKm(k)
  \/ RedrawClick
  \/ \E i \in 1..MaxImgs : ImgLoad(i)
  \/ \E i \in 1..MaxImgs : ImgError(i)

SpecRender == InitRender /\ [][NextRender]_vars

\* ---------------------------------------------------------- the geometry

\* Latitudes inside (-89, 89), up to a thousandth of a degree from its ends,
\* and longitudes up to the antimeridian, in thousandths of a degree.
GeoLats == {-88999, -33868, 0, 34690, 48857, 88999}

GeoLons == {-179999, 0, 2352, 179999}

\* The widths the range slider offers (min 20, max 800 at 468-469): both
\* ends and the initial value.
GeoScales == {20, 120, 800}

\* The page after one resolution has set a point and its image has loaded.
InitGeo ==
  /\ place = Paris
  /\ lang = "ja"
  /\ date = "2024-05-01"
  /\ scaleKm = 120
  /\ center \in {Some([lat |-> a, lon |-> o]) : a \in GeoLats, o \in GeoLons}
  /\ facts = EmptyFacts
  /\ snapshotUrl = Some(NewImage(center, facts, place, date, scaleKm).src)
  /\ status = StEmpty
  /\ canvas = Some(Render(NewImage(center, facts, place, date, scaleKm)))
  /\ imgs = <<>>
  /\ res = [r \in Res |-> IF r = 1 THEN DoneRes ELSE IdleRes]
  /\ centerBy = 1
  /\ factsBy = 0

\* The user moves the range slider and redraws; the images load or fail.
NextGeo ==
  \/ \E k \in GeoScales : SetScaleKm(k)
  \/ RedrawClick
  \/ \E i \in 1..MaxImgs : ImgLoad(i)
  \/ \E i \in 1..MaxImgs : ImgError(i)

SpecGeo == InitGeo /\ [][NextGeo]_vars

\* ------------------------------------------------- an unchanged remote

\* A remote that answers the same request the same way every time.  A search
\* for "Kobe" finds the page "Kobe" in both languages; the two-character key
\* is found under its own title in "ja" only; "Paris" is found in "en" only;
\* nothing else is found.
RemoteSearch(term, l) ==
  [ok |-> TRUE,
   results |-> IF term = Kobe THEN <<Kobe>>
               ELSE IF term = KobeJa /\ l = "ja" THEN <<KobeJa>>
               ELSE IF term = Paris /\ l = "en" THEN <<Paris>>
               ELSE <<>>]

\* The page of Kobe carries coordinates and a qid in both languages; the page
\* "Paris" carries coordinates, and no qid, in "en" only.
RemoteCoord(title, l) ==
  IF title \in {Kobe, KobeJa}
  THEN [ok |-> TRUE, coords |-> Some(KobePoint), qid |-> Some(CHOOSE q \in Qids : TRUE)]
  ELSE IF title = Paris /\ l = "en"
  THEN [ok |-> TRUE, coords |-> Some(ParisPoint), qid |-> None]
  ELSE [ok |-> TRUE, coords |-> None, qid |-> None]

\* The fact query for the one qid returns the row of Kobe.
RemoteFacts == [ok |-> TRUE, row |-> Some(KobeRow)]

\* The page once the user has chosen the four inputs of a query: the text, the
\* language, the date and the width.
InitRerun ==
  /\ place \in Places
  /\ lang \in Langs
  /\ date \in Dates
  /\ scaleKm \in Scales
  /\ center = None
  /\ facts = EmptyFacts
  /\ snapshotUrl = None
  /\ status = StEmpty
  /\ canvas = None
  /\ imgs = <<>>
  /\ res = [r \in Res |-> IdleRes]
  /\ centerBy = 0
  /\ factsBy = 0

\* The button is clicked again once the run before has ended and every image
\* it requested has loaded.
GenerateAgain(r) == NoneInFlight /\ imgs = <<>> /\ Generate(r)

SearchReturnSame(r) ==
  /\ res[r].pc = "search"
  /\ SearchReturnOn(r, RemoteSearch(StageCall(res[r].stage, res[r])[1],
                                    StageCall(res[r].stage, res[r])[2]))

CoordReturnSame(r) ==
  /\ res[r].pc = "coord"
  /\ CoordReturnOn(r, RemoteCoord(The(res[r].title), res[r].lang))

CoordEnReturnSame(r) ==
  /\ res[r].pc = "coordEn"
  /\ CoordEnReturnOn(r, RemoteCoord(The(res[r].title), "en"))

FactsReturnSame(r) ==
  /\ res[r].pc = "facts"
  /\ FactsReturnOn(r, RemoteFacts)

\* The same query is run again and again against the unchanged remote; every
\* image requested loads.
NextRerun ==
  \/ \E i \in 1..MaxImgs : ImgLoad(i)
  \/ \E r \in Res : GenerateAgain(r)
  \/ \E r \in Res : SearchReturnSame(r)
  \/ \E r \in Res : CoordReturnSame(r)
  \/ \E r \in Res : CoordEnReturnSame(r)
  \/ \E r \in Res : FactsReturnSame(r)

SpecRerun == InitRerun /\ [][NextRerun]_vars

\* ------------------------------------------------- the title selection

\* "kobe", typed without the capital.
KobeLower == <<"k", "o", "b", "e">>

\* "Kobe Port": a title that contains "Kobe" and is not equal to it.
KobePort == <<"K", "o", "b", "e", " ", "P", "o", "r", "t">>

\* Query texts that are no dictionary keys.
SearchTexts == {Kobe, KobeLower, Paris}

\* Ranked result lists of one or two different titles out of three.
RankedLists ==
  LET titles == {Kobe, KobePort, Paris}
  IN {<<t>> : t \in titles}
       \cup ({<<t, u>> : t, u \in titles} \ {<<t, t>> : t \in titles})

RankedResponses ==
  {[ok |-> TRUE, results |-> rl] : rl \in RankedLists \cup {<<>>}}

InitSearch ==
  /\ place \in SearchTexts
  /\ lang \in Langs
  /\ date = "2024-05-01"
  /\ scaleKm = 120
  /\ center = None
  /\ facts = EmptyFacts
  /\ snapshotUrl = None
  /\ status = StEmpty
  /\ canvas = None
  /\ imgs = <<>>
  /\ res = [r \in Res |-> IdleRes]
  /\ centerBy = 0
  /\ factsBy = 0

SearchReturnRanked(r) ==
  \E resp \in RankedResponses : SearchReturnOn(r, resp)

\* Queries run one after another, their searches answered with ranked lists.
NextSearch ==
  \/ \E i \in 1..MaxImgs : ImgLoad(i)
  \/ \E i \in 1..MaxImgs : ImgError(i)
  \/ \E r \in Res : GenerateAlone(r)
  \/ \E r \in Res : SearchReturnRanked(r)
  \/ \E r \in Res : CoordReturn(r)
  \/ \E r \in Res : CoordEnReturn(r)
  \/ \E r \in Res : FactsReturn(r)

SpecSearch == InitSearch /\ [][NextSearch]_vars

\* ================================================================ claims

IsPrefix(s, t) == Len(s) <= Len(t) /\ SubSeq(t, 1, Len(s)) = s

\* The outputs of the pipeline: the point, the facts, the surface, and the
\* imagery requests built and pending.
outputs == <<center, facts, canvas, snapshotUrl, imgs, centerBy, factsBy>>

\* ---- C1

\* The order of search calls as C1 states it: the translation in the requested
\* language whenever the text is a dictionary key, the original text in the
\* requested language, the translated term in "en" unless "en" was requested,
\* the original text in the other language.
ClaimedChain(p, l) ==
  LET isKey == p \in DOMAIN placeNameDict
      term == IF isKey THEN placeNameDict[p] ELSE p
  IN (IF isKey THEN <<<<term, l>>>> ELSE <<>>)
     \o <<<<p, l>>>>
     \o (IF l # "en" THEN <<<<term, "en">>>> ELSE <<>>)
     \o <<<<p, AltLang(l)>>>>

\* C1 as stated: the searches an invocation has issued are the first ones of
\* the claimed order, and a search is in flight only while no candidate title
\* has been returned.  Violated: with "en" requested the translation is never
\* searched.
C1_AsClaimed ==
  \A r \in Res :
    res[r].pc = "search" =>
      /\ IsPrefix(res[r].calls, ClaimedChain(res[r].place, res[r].lang))
      /\ ~Truthy(res[r].title)

\* The order of C1 as amended: stage 1 exists only when "ja" is requested and
\* the dictionary lookup of the text yields a value.
AmendedChain(p, l) ==
  LET translated == l = "ja" /\ Truthy(DictLookup(p))
      term == IF translated THEN The(DictLookup(p)) ELSE p
  IN (IF translated THEN <<<<term, l>>>> ELSE <<>>)
     \o <<<<p, l>>>>
     \o (IF l # "en" THEN <<<<term, "en">>>> ELSE <<>>)
     \o <<<<p, AltLang(l)>>>>

\* C1 (amended): within one invocation the searches are issued in the order
\* (1) the value the dictionary lookup yields for the text, in "ja", when "ja"
\* is requested and the lookup yields one, (2) the text in the requested
\* language, (3) the term of the first search in "en" when "ja" is requested,
\* (4) the text in the other language; and a search is in flight only while no
\* search has returned a candidate title.
C1_SearchOrder ==
  \A r \in Res :
    res[r].pc = "search" =>
      /\ res[r].calls # <<>>
      /\ IsPrefix(res[r].calls, AmendedChain(res[r].place, res[r].lang))
      /\ ~Truthy(res[r].title)

\* C1 witness: an invocation for a dictionary key has issued all four searches.
C1_Witness ==
  \E r \in Res :
    /\ res[r].pc = "search"
    /\ res[r].place \in DOMAIN placeNameDict
    /\ Len(res[r].calls) = 4

\* ---- C2

\* C2: an invocation for a text that is no dictionary key reports "not found"
\* only when it has issued every search of the chain that applies to the text
\* and language, the search in the other language last.
C2_NotFoundAfterAllStages ==
  [][\A r \in Res :
       (/\ res[r].pc = "search"
        /\ res'[r].pc = "done"
        /\ status' = StNotFound
        /\ res[r].place \notin DOMAIN placeNameDict)
       => /\ res[r].calls = AmendedChain(res[r].place, res[r].lang)
          /\ res[r].calls[Len(res[r].calls)] = <<res[r].place, AltLang(res[r].lang)>>
          /\ \E i \in 1..Len(res[r].calls) :
               res[r].calls[i] = <<res[r].place, res[r].lang>>
          /\ Len(res[r].calls) >= (IF res[r].lang = "en" THEN 2 ELSE 3)]_vars

\* C2 witness: "not found" has been reported for "Paris", no dictionary key.
C2_Witness ==
  /\ status = StNotFound
  /\ place = Paris
  /\ \E r \in Res : res[r].pc = "done"

\* ---- C3

\* C3 as stated: a search step reports "not found" only on an empty result
\* list, and on a non-empty result list the invocation holds a candidate
\* title and is at the coordinate lookup.  Violated: for a text that names an
\* inherited property of the dictionary object the non-empty list throws.
C3_AsClaimed ==
  [][\A r \in Res : \A resp \in SearchResponses :
       SearchReturnOn(r, resp)
       => /\ status' = StNotFound => (resp.ok /\ resp.results = <<>>)
          /\ (resp.ok /\ resp.results # <<>>)
             => (res'[r].pc = "coord" /\ Truthy(res'[r].title))]_vars

\* ---- C4

\* The search answered by resp ends the chain without a candidate.
Exhausted(r, resp) ==
  LET rec == res[r]
      out == wikiSearchTitle(StageCall(rec.stage, rec)[1], resp)
  IN /\ ~out.threw
     /\ ~Truthy(out.value)
     /\ NextStage(rec.stage, out.value, rec) = 0

\* C4: the step that exhausts the chain without a candidate sets the
\* not-found status and ends the invocation, which has made no coordinate
\* lookup and no fact query; it leaves the point, the facts, the surface and
\* the imagery requests as they were, and an ended invocation stays ended.
C4_NotFoundHalts ==
  [][\A r \in Res :
       /\ \A resp \in SearchResponses :
            (SearchReturnOn(r, resp) /\ Exhausted(r, resp))
            => /\ status' = StNotFound
               /\ res'[r] = DoneRes
               /\ res[r].coordCalls = <<>>
               /\ res[r].factCalls = 0
               /\ UNCHANGED outputs
       /\ res[r].pc = "done" => res'[r].pc = "done"]_vars

\* C4 witness: "not found" is reported while an earlier point and render stand.
C4_Witness ==
  /\ status = StNotFound
  /\ center # None
  /\ canvas # None

\* ---- C5

\* C5: the step on which an invocation ends without coordinates sets the
\* no-coordinates status and leaves the point, the facts, the surface and the
\* imagery requests as they were; the invocation has written neither point
\* nor facts and issued no fact query; and a step of an invocation that writes
\* neither point nor facts builds no imagery request.
C5_NoCoordsAborts ==
  [][\A r \in Res :
       /\ \A resp \in CoordResponses :
            (/\ CoordReturnOn(r, resp) \/ CoordEnReturnOn(r, resp)
             /\ resp.ok
             /\ resp.coords = None
             /\ res'[r].pc = "done")
            => /\ status' = StNoCoords
               /\ UNCHANGED outputs
               /\ centerBy # r
               /\ factsBy # r
               /\ res[r].factCalls = 0
       /\ (res'[r] # res[r] /\ UNCHANGED <<center, facts, centerBy, factsBy>>)
          => UNCHANGED <<canvas, snapshotUrl, imgs>>]_vars

\* C5 witness: "no coordinates" is reported while an earlier point, its facts
\* and its render stand.
C5_Witness ==
  /\ status = StNoCoords
  /\ center # None
  /\ facts # EmptyFacts
  /\ canvas # None

\* ---- C6

\* C6 as stated: when coordinates were obtained and the fact query fails (it
\* throws, there is no qid, or there is no row), the invocation ends with the
\* point set, empty facts and the empty status.  Violated: a throwing fact
\* query ends in the catch, which reports "search failed".
C6_AsClaimed ==
  [][\A r \in Res :
       /\ \A resp \in FactResponses :
            (FactsReturnOn(r, resp) /\ (~resp.ok \/ resp.row = None))
            => /\ res'[r].pc = "done"
               /\ center' # None
               /\ facts' = EmptyFacts
               /\ status' = StEmpty
       /\ \A resp \in CoordResponses :
            (/\ CoordReturnOn(r, resp) \/ CoordEnReturnOn(r, resp)
             /\ resp.ok
             /\ resp.coords # None
             /\ resp.qid = None)
            => /\ res'[r].pc = "done"
               /\ center' = resp.coords
               /\ facts' = EmptyFacts
               /\ status' = StEmpty]_vars

\* ---- C7

\* C7 as stated, for queries run one after another: when an invocation ends
\* successfully (it clears the status), the facts are those it wrote, or
\* empty.  Violated: without a qid setFacts is not called and the facts of
\* the earlier query stay.
C7_AsClaimed ==
  [][\A r \in Res :
       (res[r].pc # "done" /\ res'[r].pc = "done" /\ status' = StEmpty)
       => (factsBy' = r \/ facts' = EmptyFacts)]_vars

\* ---- C8

C9_AsClaimed ==
  (NoneInFlight /\ centerBy # 0 /\ factsBy # 0) => centerBy = factsBy

\* ---- C10

\* C10: the error event of an image leaves the surface, the point and the
\* facts as they were and sets the image-failure status.
C10_ImageErrorKeepsSurface ==
  [][\A i \in 1..MaxImgs :
       ImgError(i)
       => /\ UNCHANGED <<canvas, center, facts>>
          /\ status' = StImageFailed]_vars

\* C10 witness: the image-failure status is shown over an earlier render.
C10_Witness ==
  /\ status = StImageFailed
  /\ canvas # None

\* ---- C11

\* C11: whenever a network call of an invocation throws (the search on a
\* response that is not ok or on the TypeError of line 84, the coordinate
\* lookup or the fact query on a failed fetch), the same step sets the status
\* to the failure text carrying the message of the error and ends the
\* invocation; an ended invocation does nothing more, so it makes no further
\* network call.
C11_FailureCaught ==
  [][\A r \in Res :
       /\ \A resp \in SearchResponses :
            LET out == wikiSearchTitle(StageCall(res[r].stage, res[r])[1], resp)
            IN (SearchReturnOn(r, resp) /\ out.threw)
               => (status' = StFailed(out.error) /\ res'[r] = DoneRes)
       /\ \A resp \in CoordResponses :
            (/\ CoordReturnOn(r, resp) \/ CoordEnReturnOn(r, resp)
             /\ ~resp.ok)
            => (status' = StFailed(FetchError) /\ res'[r] = DoneRes)
       /\ \A resp \in FactResponses :
            (FactsReturnOn(r, resp) /\ ~resp.ok)
            => (status' = StFailed(FetchError) /\ res'[r] = DoneRes)
       /\ res[r] = DoneRes => res'[r] = DoneRes]_vars

\* C11 witness: a search answered with an HTTP error has ended its invocation
\* with the failure status, after an earlier invocation had set a point.
C11_Witness ==
  /\ status = StFailed(HttpError)
  /\ center # None
  /\ \A r \in Res : res[r].pc = "done"

\* ---- C12

\* The chips as C12 states them: a population chip when the population has a
\* value, then an elevation chip when the elevation has a value, then the
\* date chip.
ClaimedChips(f, d) ==
  (IF f.population # None THEN <<<<"population", The(f.population)>>>> ELSE <<>>)
  \o (IF f.elev # None THEN <<<<"elevation", The(f.elev)>>>> ELSE <<>>)
  \o <<<<"date", d>>>>

\* C12 as stated: every render draws exactly the chips of ClaimedChips for
\* the facts and the date of its image.  Violated: a population of 0 is a
\* value, but line 257 tests it for truthiness and draws no chip.
C12_AsClaimed ==
  [][\A i \in 1..MaxImgs :
       ImgLoad(i)
       => The(canvas').chips = ClaimedChips(imgs[i].facts, imgs[i].date)]_vars

\* ---- C13

\* C13 as stated: once the last invocation has ended successfully and every
\* image load has completed, the surface shows the render of the current
\* point and facts, its title the label when there is one and the query text
\* otherwise.  Violated: the image requested after setCenter (with the facts
\* as they were) can load after the image requested after setFacts, and its
\* render is the one that stays.
C13_AsClaimed ==
  (NoneInFlight /\ imgs = <<>> /\ status = StEmpty /\ center # None)
  => /\ canvas = Some(Render(NewImage(center, facts, place, date, scaleKm)))
     /\ The(canvas).title = (IF Truthy(facts.label) THEN The(facts.label) ELSE place)

\* ---- C14

\* A box is ordered and centred on the point c.
Centred(b, c) ==
  /\ b.south < b.north
  /\ b.west < b.east
  /\ b.north - c.lat = c.lat - b.south
  /\ b.east - c.lon = c.lon - b.west

\* C14: for every latitude in (-89, 89), every longitude and every width the
\* slider offers, the bbox of the current point has south < north and
\* west < east and is symmetric about the point, and so has the BBOX of every
\* imagery request pending for that point.
C14_BoxCentred ==
  center # None =>
    /\ Centred(The(bbox(center, scaleKm)), The(center))
    /\ \A i \in 1..Len(imgs) :
         LET q == imgs[i].src.BBOX
         IN Centred([south |-> q[1], west |-> q[2], north |-> q[3], east |-> q[4]],
                    The(imgs[i].center))

\* C14 witness: at the southern end of the latitudes and at the antimeridian,
\* with the narrowest width, the request for the box has been built and its
\* image has loaded.
C14_Witness ==
  /\ center = Some([lat |-> -88999, lon |-> 179999])
  /\ scaleKm = 20
  /\ imgs = <<>>
  /\ canvas # None
  /\ The(canvas).image = buildWvsUrl(The(bbox(center, scaleKm)), date)

\* ---- C15

\* C15 as stated: a run of the same query against the unchanged remote, started
\* after the run before it has ended and its images have loaded, leaves the
\* point, the facts and the bbox as that run left them, and every render it
\* causes equals the surface that run left.  Violated: the run before may have
\* left the render of its earlier facts (its first image loaded last), and the
\* second run then draws a different surface.
C15_AsClaimed ==
  [][\A r \in Res \ {1} :
       /\ res'[r] # res[r]
          => /\ center' = center
             /\ facts' = facts
             /\ bbox(center', scaleKm') = bbox(center, scaleKm)
       /\ \A i \in 1..MaxImgs :
            (ImgLoad(i) /\ res[r].pc # "idle" /\ res[r - 1].pc = "done" /\ canvas # None)
            => canvas' = canvas]_vars

\* ---- C16

\* C16: every render draws, in this order, the base image, the gradient, the
\* title, the subtitle, the chips and last the credit line, and the credit
\* line is the fixed text naming the imagery and data sources, whatever
\* facts are present or missing.
C16_LayerOrder ==
  [][\A i \in 1..MaxImgs :
       ImgLoad(i)
       => LET c == The(canvas')
          IN /\ c.layers = <<"image", "gradient", "title", "subtitle">>
                             \o [k \in 1..Len(c.chips) |-> "chip"]
                             \o <<"credit">>
             /\ c.credit = CreditLine
             /\ c.image = imgs[i].src]_vars

\* C16 witness: an image requested for the second date has loaded while every
\* fact is missing; the render has the date chip and the credit only.
C16_Witness ==
  /\ facts = EmptyFacts
  /\ canvas # None
  /\ The(canvas).chips = <<<<"date", "2024-05-02">>>>
  /\ The(canvas).credit = CreditLine

\* ---- C17

\* The first element of a list that satisfies P, as the index of it.
FirstIndex(n, P(_)) == CHOOSE i \in 1..n : P(i) /\ \A j \in 1..(i - 1) : ~P(j)

\* The selection as C17 states it: a title equal to the query without regard
\* to case if there is one, else the first title containing the query, else
\* the top-ranked title.
ClaimedPick(q, results) ==
  LET n == Len(results)
      Equal(i) == toLowerCase(results[i]) = toLowerCase(q)
      Contains(i) == includes(toLowerCase(results[i]), toLowerCase(q))
  IN IF \E i \in 1..n : Equal(i) THEN results[FirstIndex(n, Equal)]
     ELSE IF \E i \in 1..n : Contains(i) THEN results[FirstIndex(n, Contains)]
     ELSE results[1]

\* C17 as stated: a search answered with a non-empty list leaves the
\* invocation with the title of ClaimedPick.  Violated: find (83-86) tests
\* "equal or contains" in one pass, so a containing title ranked above the
\* equal one is selected.
C17_AsClaimed ==
  [][\A r \in Res : \A resp \in RankedResponses :
       (SearchReturnOn(r, resp) /\ resp.results # <<>>)
       => res'[r].title =
            Some(ClaimedPick(StageCall(res[r].stage, res[r])[1], resp.results))]_vars

\* ---- C18

\* C18: the first coordinate lookup of an invocation is in the requested
\* language; when it answers, a second lookup follows if and only if it
\* returned no coordinates and the requested language is not "en", and that
\* lookup is in "en"; no lookup follows the second; "no coordinates" is
\* reported only by a lookup that returned none, after the lookup in the
\* requested language and, unless that language is "en", the one in "en";
\* an invocation never makes more than two lookups.
C18_CoordRetry ==
  [][\A r \in Res :
       /\ (res[r].pc = "search" /\ res'[r].pc = "coord")
          => res'[r].coordCalls = <<res[r].lang>>
       /\ \A resp \in CoordResponses :
            /\ (CoordReturnOn(r, resp) /\ resp.ok)
               => /\ res'[r].pc = "coordEn"
                     <=> (resp.coords = None /\ res[r].lang # "en")
                  /\ res'[r].pc = "coordEn"
                     => res'[r].coordCalls = <<res[r].lang, "en">>
            /\ CoordEnReturnOn(r, resp)
               => /\ res'[r].pc \in {"facts", "done"}
                  /\ res[r].coordCalls = <<res[r].lang, "en">>
            /\ (/\ CoordReturnOn(r, resp) \/ CoordEnReturnOn(r, resp)
                /\ res'[r].pc = "done"
                /\ status' = StNoCoords)
               => /\ resp.ok /\ resp.coords = None
                  /\ res[r].coordCalls =
                       (IF res[r].lang = "en" THEN <<"en">> ELSE <<res[r].lang, "en">>)
       /\ Len(res'[r].coordCalls) <= 2]_vars

\* C18 witness: the lookup in "ja" returned no coordinates and the retry in
\* "en" is in flight.
C18_Witness ==
  \E r \in Res :
    /\ res[r].pc = "coordEn"
    /\ res[r].lang = "ja"
    /\ res[r].coordCalls = <<"ja", "en">>

\* ---- C19

\* C19 as stated: the step on which an invocation starts its fact query
\* builds no imagery request and starts no image load; those wait for the
\* facts.  Violated: setCenter precedes the await of the fact query, and the
\* render that follows runs the snapshot effect at once.
C19_AsClaimed ==
  [][\A r \in Res :
       (res[r].pc \in {"coord", "coordEn"} /\ res'[r].pc = "facts")
       => UNCHANGED <<imgs, snapshotUrl>>]_vars

\* ---- C20

\* C20 as stated: the searches an invocation has issued are pairwise
\* different in term or language.  Violated: when no translation was
\* substituted and "ja" is requested, the third and the fourth search are
\* both the text in "en".
C20_AsClaimed ==
  \A r \in Res :
    \A i, j \in 1..Len(res[r].calls) :
      i # j => res[r].calls[i] # res[r].calls[j]

\* ---- C21

\* C21 as stated: a change of the query text or of the language selection
\* leaves the point, the facts, the bbox and the surface as they were and
\* issues no imagery request and no image load.  Violated: place is a
\* dependency of rebuildSnapshot (287), so with a point set every change of
\* the text runs the snapshot effect again.
C21_AsClaimed ==
  [][/\ \A p \in Places :
          SetPlace(p)
          => /\ UNCHANGED <<center, facts, canvas, snapshotUrl, imgs>>
             /\ bbox(center', scaleKm') = bbox(center, scaleKm)
     /\ \A l \in Langs :
          SetLang(l)
          => /\ UNCHANGED <<center, facts, canvas, snapshotUrl, imgs>>
             /\ bbox(center', scaleKm') = bbox(center, scaleKm)]_vars

\* ---- C22

\* The progress messages, and the texts an invocation may end with.
ProgressTexts == {StSearching, StCoords, StDetails}

FinalTexts ==
  {StEmpty, StNotFound, StNoCoords}
    \cup {StFailed(m) : m \in {HttpError, TypeErrorMsg, FetchError}}

\* C22: provided every network call eventually returns or throws, every
\* invocation that was started eventually ends (a started invocation never
\* becomes unstarted again, and again and again a moment comes when none is
\* in flight, so each started one has ended by then); the step that ends it
\* leaves the status empty or holding one of the failure messages; and while
\* no invocation is in flight the status is none of the progress messages.
C22_Terminates ==
  /\ [][\A r \in Res : res[r].pc # "idle" => res'[r].pc # "idle"]_vars
  /\ []<>NoneInFlight
  /\ [][\A r \in Res :
          (res[r].pc \notin {"idle", "done"} /\ res'[r].pc = "done")
          => status' \in FinalTexts]_vars
  /\ [](NoneInFlight => status \notin ProgressTexts)

\* C22 witness: every invocation has ended, the last one with "no
\* coordinates" after an earlier one had set a point.
C22_Witness ==
  /\ \A r \in Res : res[r].pc = "done"
  /\ status = StNoCoords
  /\ center # None

\* ---- C23

\* C23: every element a render draws lies inside the surface: the vertical
\* coordinate of the title, of the subtitle, of the top and the bottom of each
\* chip's box, of each chip's text and of the credit line is between 0 and
\* the height of the surface, 900.
C23_AsClaimed ==
  [][\A i \in 1..MaxImgs :
       ImgLoad(i)
       => LET c == The(canvas')
          IN \A k \in 1..Len(c.marks) :
               /\ 0 <= c.marks[k].y
               /\ c.marks[k].y <= canvasHeight]_vars

====
